---- MODULE Spec2Model ----
(***************************************************************************)
(* Model of the final implementation of the notebook (conv_block,          *)
(* dec_block, MyEncoder, MyDecoder, MyCNNClassifier): construction of the  *)
(* module tree from size lists, and the forward calls on it.               *)
(*                                                                         *)
(* A layer is a record; a Sequential is the sequence of its children; a    *)
(* tensor is its shape.  Every leaf module gets the next free instance id, *)
(* in the order Python evaluates the constructor calls.  An optional value *)
(* is a sequence of length 0 (None) or 1.                                  *)
(***************************************************************************)
EXTENDS Integers, Sequences, FiniteSets, TLC

VARIABLES cell, args, pc, model, exc, out, trace, nextId, other, calls

vars == <<cell, args, pc, model, exc, out, trace, nextId, other, calls>>

---------------------------------------------------------------------------
(* Bounds of the explored inputs *)

\* longest enc_sizes list passed to MyCNNClassifier
MaxEnc == 2
\* longest dec_sizes list passed to MyCNNClassifier / MyDecoder
MaxDec == 2
\* most layers of a MyModule
MaxLayers == 2
\* most forward calls made on one MyModule
MaxCalls == 3

---------------------------------------------------------------------------
(* Inputs *)

\* marks a keyword argument the caller left out
Omitted == "<omitted>"

InChans == {0, 1}
EncSizeVals == {0, 32, 64}
DecSizeVals == {0, 512, 1024}
ClassCounts == {0, 10}
ActivationArgs == {"relu", "lrelu", "leaky_relu", Omitted}
InputShapes == {<<1, 1, 28, 28>>, <<4, 1, 28, 28>>}

SeqsUpTo(S, n) == UNION {[1..k -> S] : k \in 0..n}

EncLists == SeqsUpTo(EncSizeVals, MaxEnc)
DecLists == SeqsUpTo(DecSizeVals, MaxDec)
\* chains handed directly to MyEncoder: empty, or [in_c, *enc_sizes]
EncChains == {<< >>} \cup {<<c>> \o e : c \in InChans, e \in EncLists}

NoArgs ==
  [in_f |-> 0, out_f |-> 0, sizes |-> << >>, in_c |-> 0, enc_sizes |-> << >>,
   dec_sizes |-> << >>, n_classes |-> 0, activation |-> Omitted,
   strict |-> FALSE, x |-> <<1, 1, 28, 28>>, kernel_size |-> 3, padding |-> 1]

\* the layer options passed through conv_block to nn.Conv2d
KernelSizes == {1, 3}
Paddings == {0, 1}

ConvBlockArgs ==
  {[NoArgs EXCEPT !.in_f = i, !.out_f = o, !.activation = a, !.strict = s,
                  !.kernel_size = k, !.padding = p] :
     i \in InChans \cup EncSizeVals, o \in EncSizeVals,
     a \in ActivationArgs, s \in BOOLEAN, k \in KernelSizes, p \in Paddings}

\* MyCNNClassifier(in_c, n_classes) of the first two versions
FixedClassifierArgs ==
  {[NoArgs EXCEPT !.in_c = c, !.n_classes = n, !.strict = s, !.x = x] :
     c \in InChans, n \in ClassCounts, s \in BOOLEAN, x \in InputShapes}

\* the first conv_block of the notebook has no activation parameter
FirstConvBlockArgs == {a \in ConvBlockArgs : a.activation = Omitted}

EncoderArgs ==
  {[NoArgs EXCEPT !.sizes = c, !.activation = a, !.strict = s, !.x = x] :
     c \in EncChains, a \in ActivationArgs, s \in BOOLEAN, x \in InputShapes}

DecoderArgs ==
  {[NoArgs EXCEPT !.sizes = c, !.n_classes = n, !.strict = s] :
     c \in DecLists, n \in ClassCounts, s \in BOOLEAN}

ClassifierArgs ==
  {[NoArgs EXCEPT !.in_c = c, !.enc_sizes = e, !.dec_sizes = d,
                  !.n_classes = n, !.activation = a, !.strict = s, !.x = x] :
     c \in InChans, e \in EncLists, d \in DecLists, n \in ClassCounts,
     a \in ActivationArgs, s \in BOOLEAN, x \in InputShapes}

\* MyCNNClassifier(in_c, enc_sizes, dec_sizes, n_classes) of the versions
\* without an activation parameter, called on the batch of four
SizedClassifierArgs ==
  {a \in ClassifierArgs : a.activation = Omitted /\ a.x = <<4, 1, 28, 28>>}

\* MyModule(sizes) and the (batch, features) input of its forward calls
ModuleSizeVals == {0, 1, 16, 32}
ModuleInputs == {<<1, 1>>, <<4, 1>>, <<4, 16>>}

ModuleArgs ==
  {[NoArgs EXCEPT !.sizes = c, !.strict = s, !.x = x] :
     c \in SeqsUpTo(ModuleSizeVals, MaxLayers + 1), s \in BOOLEAN,
     x \in ModuleInputs}

---------------------------------------------------------------------------
(* Results of calls: a value, or a raised exception *)

Ok(v, next) == [exc |-> "none", val |-> <<v>>, next |-> next]
Raise(e, next) == [exc |-> e, val |-> << >>, next |-> next]

---------------------------------------------------------------------------
(* Framework layer constructors, as the notebook calls them.  The notebook *)
(* checks no size itself; `strict` says whether the framework build in use *)
(* rejects a size below 1 handed to a layer constructor.                   *)

Layer(kind, in_f, out_f, kernel_size, padding, id) ==
  [kind |-> kind, in_f |-> in_f, out_f |-> out_f,
   kernel_size |-> kernel_size, padding |-> padding, id |-> id]

Conv2d(in_f, out_f, kernel_size, padding, id, strict) ==
  IF strict /\ (in_f < 1 \/ out_f < 1)
  THEN Raise("FrameworkError", id)
  ELSE Ok(Layer("Conv2d", in_f, out_f, kernel_size, padding, id), id + 1)

BatchNorm2d(num_features, id, strict) ==
  IF strict /\ num_features < 1
  THEN Raise("FrameworkError", id)
  ELSE Ok(Layer("BatchNorm2d", num_features, num_features, 0, 0, id), id + 1)

Linear(in_f, out_f, id, strict) ==
  IF strict /\ (in_f < 1 \/ out_f < 1)
  THEN Raise("FrameworkError", id)
  ELSE Ok(Layer("Linear", in_f, out_f, 0, 0, id), id + 1)

\* a plausible slip: one cached instance per activation class
Activation_singleton(kind, id) == Layer(kind, 0, 0, 0, 0, 0)

\* parameterless activation modules: nn.LeakyReLU(), nn.ReLU(), nn.Sigmoid()
Activation(kind, id) == Layer(kind, 0, 0, 0, 0, id)

---------------------------------------------------------------------------
(* conv_block and dec_block *)

\* a plausible slip: one registry built at module level and shared by every
\* conv_block call
activations_module_level(id) ==
  [name \in {"lrelu", "relu"} |->
     IF name = "lrelu" THEN Activation("LeakyReLU", 1)
                       ELSE Activation("ReLU", 2)]

\* a plausible slip: the two registry entries under each other's key
activations_swapped(id) ==
  [name \in {"lrelu", "relu"} |->
     IF name = "lrelu" THEN Activation("ReLU", id)
                       ELSE Activation("LeakyReLU", id + 1)]

\* the ModuleDict built by each conv_block call: LeakyReLU is constructed
\* first, ReLU second
activations(id) ==
  [name \in {"lrelu", "relu"} |->
     IF name = "lrelu" THEN Activation("LeakyReLU", id)
                       ELSE Activation("ReLU", id + 1)]

\* the default of conv_block's activation parameter
conv_block_default(activation) ==
  IF activation = Omitted THEN "relu" ELSE activation

\* the first version: conv_block(in_f, out_f, *args, **kwargs), always with
\* a new nn.ReLU()
conv_block_first(in_f, out_f, kernel_size, padding, id, strict) ==
  LET conv == Conv2d(in_f, out_f, kernel_size, padding, id, strict)
      bn   == BatchNorm2d(out_f, conv.next, strict)
  IN  IF conv.exc # "none" THEN Raise(conv.exc, conv.next)
      ELSE IF bn.exc # "none" THEN Raise(bn.exc, bn.next)
      ELSE Ok(<<conv.val[1], bn.val[1], Activation("ReLU", bn.next)>>,
              bn.next + 1)

\* a plausible slip: the normalization sized to the convolution's input
conv_block_norm_of_input(in_f, out_f, activation, kernel_size, padding, id, strict) ==
  LET registry == activations(id)
      name     == conv_block_default(activation)
      conv     == Conv2d(in_f, out_f, kernel_size, padding, id + 2, strict)
      bn       == BatchNorm2d(in_f, conv.next, strict)
  IN  IF conv.exc # "none" THEN Raise(conv.exc, conv.next)
      ELSE IF bn.exc # "none" THEN Raise(bn.exc, bn.next)
      ELSE IF name \notin DOMAIN registry THEN Raise("KeyError", bn.next)
      ELSE Ok(<<conv.val[1], bn.val[1], registry[name]>>, bn.next)

\* conv_block(in_f, out_f, activation='relu', *args, **kwargs); the kwargs
\* are kernel_size and padding.  The arguments of nn.Sequential are
\* evaluated left to right: Conv2d, BatchNorm2d, then the registry lookup.
conv_block(in_f, out_f, activation, kernel_size, padding, id, strict) ==
  LET registry == activations(id)
      name     == conv_block_default(activation)
      conv     == Conv2d(in_f, out_f, kernel_size, padding, id + 2, strict)
      bn       == BatchNorm2d(out_f, conv.next, strict)
  IN  IF conv.exc # "none" THEN Raise(conv.exc, conv.next)
      ELSE IF bn.exc # "none" THEN Raise(bn.exc, bn.next)
      ELSE IF name \notin DOMAIN registry THEN Raise("KeyError", bn.next)
      ELSE Ok(<<conv.val[1], bn.val[1], registry[name]>>, bn.next)

\* a plausible slip: the activation left out of the linear block
dec_block_no_activation(in_f, out_f, id, strict) ==
  LET lin == Linear(in_f, out_f, id, strict)
  IN  IF lin.exc # "none" THEN Raise(lin.exc, lin.next)
      ELSE Ok(<<lin.val[1]>>, lin.next)

dec_block(in_f, out_f, id, strict) ==
  LET lin == Linear(in_f, out_f, id, strict)
  IN  IF lin.exc # "none" THEN Raise(lin.exc, lin.next)
      ELSE Ok(<<lin.val[1], Activation("Sigmoid", lin.next)>>, lin.next + 1)

---------------------------------------------------------------------------
(* zip(sizes, sizes[1:]) *)

\* a plausible slip: zip(sizes[1:], sizes), each pair the wrong way round
zip_reversed(sizes) ==
  [i \in 1..(IF Len(sizes) = 0 THEN 0 ELSE Len(sizes) - 1) |->
     <<sizes[i + 1], sizes[i]>>]

\* a plausible slip: zip(sizes, sizes), one pair per element
zip_unshifted(sizes) ==
  [i \in 1..Len(sizes) |-> <<sizes[i], sizes[i]>>]

zip_shifted(sizes) ==
  [i \in 1..(IF Len(sizes) = 0 THEN 0 ELSE Len(sizes) - 1) |->
     <<sizes[i], sizes[i + 1]>>]

---------------------------------------------------------------------------
(* MyEncoder, MyDecoder, MyCNNClassifier: construction *)

\* [conv_block(in_f, out_f, kernel_size=3, padding=1, **kwargs) for in_f,
\* out_f in pairs]: the blocks are built in list order and the first
\* exception ends the comprehension
RECURSIVE conv_blocks(_, _, _, _)
conv_blocks(pairs, activation, id, strict) ==
  IF Len(pairs) = 0 THEN Ok(<< >>, id)
  ELSE LET b == conv_block(pairs[1][1], pairs[1][2], activation, 3, 1, id, strict)
       IN  IF b.exc # "none" THEN Raise(b.exc, b.next)
           ELSE LET rest == conv_blocks(Tail(pairs), activation, b.next, strict)
                IN  IF rest.exc # "none" THEN Raise(rest.exc, rest.next)
                    ELSE Ok(<<b.val[1]>> \o rest.val[1], rest.next)

\* [dec_block(in_f, out_f) for in_f, out_f in pairs]
RECURSIVE dec_blocks(_, _, _)
dec_blocks(pairs, id, strict) ==
  IF Len(pairs) = 0 THEN Ok(<< >>, id)
  ELSE LET b == dec_block(pairs[1][1], pairs[1][2], id, strict)
       IN  IF b.exc # "none" THEN Raise(b.exc, b.next)
           ELSE LET rest == dec_blocks(Tail(pairs), b.next, strict)
                IN  IF rest.exc # "none" THEN Raise(rest.exc, rest.next)
                    ELSE Ok(<<b.val[1]>> \o rest.val[1], rest.next)

\* a plausible slip: the keyword arguments not handed on to conv_block
MyEncoder_drops_kwargs(enc_sizes, activation, id, strict) ==
  LET blocks == conv_blocks(zip_shifted(enc_sizes), Omitted, id, strict)
  IN  IF blocks.exc # "none" THEN Raise(blocks.exc, blocks.next)
      ELSE Ok([cls |-> "MyEncoder", conv_blokcs |-> blocks.val[1]], blocks.next)

\* MyEncoder.__init__(enc_sizes, **kwargs); activation is the one keyword
\* argument callers pass, Omitted when they pass none
MyEncoder(enc_sizes, activation, id, strict) ==
  LET blocks == conv_blocks(zip_shifted(enc_sizes), activation, id, strict)
  IN  IF blocks.exc # "none" THEN Raise(blocks.exc, blocks.next)
      ELSE Ok([cls |-> "MyEncoder", conv_blokcs |-> blocks.val[1]], blocks.next)

\* MyDecoder.__init__(dec_sizes, n_classes); dec_sizes[-1] raises IndexError
\* on an empty list
MyDecoder(dec_sizes, n_classes, id, strict) ==
  LET blocks == dec_blocks(zip_shifted(dec_sizes), id, strict)
  IN  IF blocks.exc # "none" THEN Raise(blocks.exc, blocks.next)
      ELSE IF Len(dec_sizes) = 0 THEN Raise("IndexError", blocks.next)
      ELSE LET last == Linear(dec_sizes[Len(dec_sizes)], n_classes,
                              blocks.next, strict)
           IN  IF last.exc # "none" THEN Raise(last.exc, last.next)
               ELSE Ok([cls |-> "MyDecoder", dec_blocks |-> blocks.val[1],
                        last |-> last.val[1]], last.next)

\* the default of MyCNNClassifier's activation parameter
MyCNNClassifier_default(activation) ==
  IF activation = Omitted THEN "relu" ELSE activation

\* a plausible slip: the encoder built from enc_sizes, without in_c
MyCNNClassifier_encoder_from_arg(in_c, enc_sizes, dec_sizes, n_classes, activation, id, strict) ==
  LET self_enc_sizes == <<in_c>> \o enc_sizes
      self_dec_sizes == <<32 * 28 * 28>> \o dec_sizes
      encoder == MyEncoder(enc_sizes, MyCNNClassifier_default(activation),
                           id, strict)
  IN  IF encoder.exc # "none" THEN Raise(encoder.exc, encoder.next)
      ELSE LET decoder == MyDecoder(dec_sizes, n_classes, encoder.next, strict)
           IN  IF decoder.exc # "none" THEN Raise(decoder.exc, decoder.next)
               ELSE Ok([cls |-> "MyCNNClassifier",
                        enc_sizes |-> self_enc_sizes,
                        dec_sizes |-> self_dec_sizes,
                        encoder |-> encoder.val[1],
                        decoder |-> decoder.val[1]], decoder.next)

\* MyCNNClassifier.__init__(in_c, enc_sizes, dec_sizes, n_classes,
\* activation='relu'): the encoder is built from self.enc_sizes, the decoder
\* from the dec_sizes argument (self.dec_sizes is stored and not used)
MyCNNClassifier(in_c, enc_sizes, dec_sizes, n_classes, activation, id, strict) ==
  LET self_enc_sizes == <<in_c>> \o enc_sizes
      self_dec_sizes == <<32 * 28 * 28>> \o dec_sizes
      encoder == MyEncoder(self_enc_sizes, MyCNNClassifier_default(activation),
                           id, strict)
  IN  IF encoder.exc # "none" THEN Raise(encoder.exc, encoder.next)
      ELSE LET decoder == MyDecoder(dec_sizes, n_classes, encoder.next, strict)
           IN  IF decoder.exc # "none" THEN Raise(decoder.exc, decoder.next)
               ELSE Ok([cls |-> "MyCNNClassifier",
                        enc_sizes |-> self_enc_sizes,
                        dec_sizes |-> self_dec_sizes,
                        encoder |-> encoder.val[1],
                        decoder |-> decoder.val[1]], decoder.next)

---------------------------------------------------------------------------
(* Forward calls.  A tensor is [shape, trace]: its shape and the ids of    *)
(* the leaf modules that produced it, in order (0 stands for flatten).     *)
(* A call returns [exc, shape, trace]; shape is meaningless when exc is    *)
(* not "none".                                                             *)

Returned(shape, tr) == [exc |-> "none", shape |-> shape, trace |-> tr]
Raised(e, tr) == [exc |-> e, shape |-> << >>, trace |-> tr]

\* output length of a stride-1, dilation-1 convolution along one axis
conv_out(n, kernel_size, padding) == n + 2 * padding - kernel_size + 1

\* layer(x) for one leaf module; a shape the layer cannot take is the
\* framework's RuntimeError
layer_forward(layer, shape, tr) ==
  CASE layer.kind = "Conv2d" ->
         IF Len(shape) # 4 \/ shape[2] # layer.in_f
            \/ conv_out(shape[3], layer.kernel_size, layer.padding) < 1
            \/ conv_out(shape[4], layer.kernel_size, layer.padding) < 1
         THEN Raised("RuntimeError", tr)
         ELSE Returned(<<shape[1], layer.out_f,
                         conv_out(shape[3], layer.kernel_size, layer.padding),
                         conv_out(shape[4], layer.kernel_size, layer.padding)>>,
                       Append(tr, layer.id))
    [] layer.kind = "BatchNorm2d" ->
         IF Len(shape) # 4 \/ shape[2] # layer.in_f
         THEN Raised("RuntimeError", tr)
         ELSE Returned(shape, Append(tr, layer.id))
    [] layer.kind = "Linear" ->
         IF Len(shape) = 0 \/ shape[Len(shape)] # layer.in_f
         THEN Raised("RuntimeError", tr)
         ELSE Returned([shape EXCEPT ![Len(shape)] = layer.out_f],
                       Append(tr, layer.id))
    [] OTHER -> Returned(shape, Append(tr, layer.id))

\* nn.Sequential.forward over leaf modules
RECURSIVE block_forward(_, _, _)
block_forward(layers, shape, tr) ==
  IF Len(layers) = 0 THEN Returned(shape, tr)
  ELSE LET r == layer_forward(layers[1], shape, tr)
       IN  IF r.exc # "none" THEN r
           ELSE block_forward(Tail(layers), r.shape, r.trace)

\* nn.Sequential.forward over a Sequential of blocks
RECURSIVE blocks_forward(_, _, _)
blocks_forward(blocks, shape, tr) ==
  IF Len(blocks) = 0 THEN Returned(shape, tr)
  ELSE LET r == block_forward(blocks[1], shape, tr)
       IN  IF r.exc # "none" THEN r
           ELSE blocks_forward(Tail(blocks), r.shape, r.trace)

\* calling a Sequential: forward takes exactly one input, so a call with
\* no argument is a TypeError
Sequential_call(blocks, inputs, tr) ==
  IF Len(inputs) # 1 THEN Raised("TypeError", tr)
  ELSE blocks_forward(blocks, inputs[1], tr)

\* self.encoder(x): MyEncoder defines no forward method (the def forward of
\* the source is nested inside __init__), so the call reaches nn.Module's
\* forward, which raises NotImplementedError
MyEncoder_call(self, shape, tr) == Raised("NotImplementedError", tr)

\* MyDecoder.forward(x): return self.dec_blocks()
MyDecoder_forward(self, shape, tr) == Sequential_call(self.dec_blocks, << >>, tr)

RECURSIVE product(_)
product(s) == IF Len(s) = 0 THEN 1 ELSE s[1] * product(Tail(s))

\* x.flatten(1)
flatten1(shape) == <<shape[1], product(Tail(shape))>>

\* MyCNNClassifier.forward(x)
MyCNNClassifier_forward(self, shape) ==
  LET e == MyEncoder_call(self.encoder, shape, << >>)
  IN  IF e.exc # "none" THEN e
      ELSE MyDecoder_forward(self.decoder, flatten1(e.shape), Append(e.trace, 0))

---------------------------------------------------------------------------
(* The first two versions of the classifier: MyCNNClassifier(in_c,        *)
(* n_classes) with one attribute per layer, and its rewrite with          *)
(* nn.Sequential.                                                          *)

\* F.relu / F.sigmoid: a function call, no module instance (id 0)
F_relu == Activation("ReLU", 0)
F_sigmoid == Activation("Sigmoid", 0)

\* one constructor call of the framework, by kind
construct(kind, in_f, out_f, id, strict) ==
  CASE kind = "Conv2d" -> Conv2d(in_f, out_f, 3, 1, id, strict)
    [] kind = "BatchNorm2d" -> BatchNorm2d(in_f, id, strict)
    [] kind = "Linear" -> Linear(in_f, out_f, id, strict)
    [] OTHER -> Ok(Activation(kind, id), id + 1)

\* the constructor calls of an __init__ body, in statement order
RECURSIVE construct_all(_, _, _)
construct_all(calls_, id, strict) ==
  IF Len(calls_) = 0 THEN Ok(<< >>, id)
  ELSE LET l == construct(calls_[1][1], calls_[1][2], calls_[1][3], id, strict)
       IN  IF l.exc # "none" THEN Raise(l.exc, l.next)
           ELSE LET rest == construct_all(Tail(calls_), l.next, strict)
                IN  IF rest.exc # "none" THEN Raise(rest.exc, rest.next)
                    ELSE Ok(<<l.val[1]>> \o rest.val[1], rest.next)

\* MyCNNClassifier.__init__(in_c, n_classes), plain Module version
MyCNNClassifier_plain(in_c, n_classes, id, strict) ==
  LET r == construct_all(<< <<"Conv2d", in_c, 32>>, <<"BatchNorm2d", 32, 32>>,
                            <<"Conv2d", 32, 64>>, <<"BatchNorm2d", 32, 32>>,
                            <<"Linear", 32 * 28 * 28, 1024>>,
                            <<"Linear", 1024, n_classes>> >>, id, strict)
  IN  IF r.exc # "none" THEN Raise(r.exc, r.next)
      ELSE Ok([cls |-> "MyCNNClassifier",
               conv1 |-> r.val[1][1], bn1 |-> r.val[1][2],
               conv2 |-> r.val[1][3], bn2 |-> r.val[1][4],
               fc1 |-> r.val[1][5], fc2 |-> r.val[1][6]], r.next)

\* MyCNNClassifier.__init__(in_c, n_classes), nn.Sequential version
MyCNNClassifier_sequential(in_c, n_classes, id, strict) ==
  LET r == construct_all(<< <<"Conv2d", in_c, 32>>, <<"BatchNorm2d", 32, 32>>,
                            <<"ReLU", 0, 0>>,
                            <<"Conv2d", 32, 64>>, <<"BatchNorm2d", 64, 64>>,
                            <<"ReLU", 0, 0>>,
                            <<"Linear", 32 * 28 * 28, 1024>>,
                            <<"Sigmoid", 0, 0>>,
                            <<"Linear", 1024, n_classes>> >>, id, strict)
  IN  IF r.exc # "none" THEN Raise(r.exc, r.next)
      ELSE Ok([cls |-> "MyCNNClassifier",
               conv_block1 |-> SubSeq(r.val[1], 1, 3),
               conv_block2 |-> SubSeq(r.val[1], 4, 6),
               decoder |-> SubSeq(r.val[1], 7, 9)], r.next)

\* the steps of the plain version's forward before and after x.view
MyCNNClassifier_plain_features(self) ==
  <<self.conv1, self.bn1, F_relu, self.conv2, self.bn2, F_relu>>
MyCNNClassifier_plain_head(self) == <<self.fc1, F_sigmoid, self.fc2>>

\* MyCNNClassifier.forward(x), plain Module version
MyCNNClassifier_plain_forward(self, shape) ==
  LET e == block_forward(MyCNNClassifier_plain_features(self), shape, << >>)
  IN  IF e.exc # "none" THEN e
      ELSE block_forward(MyCNNClassifier_plain_head(self), flatten1(e.shape),
                         Append(e.trace, 0))

\* MyCNNClassifier.forward(x), nn.Sequential version
MyCNNClassifier_sequential_forward(self, shape) ==
  LET e == blocks_forward(<<self.conv_block1, self.conv_block2>>, shape, << >>)
  IN  IF e.exc # "none" THEN e
      ELSE block_forward(self.decoder, flatten1(e.shape), Append(e.trace, 0))

---------------------------------------------------------------------------
(* The classifier parameterised by enc_sizes and dec_sizes, as one class   *)
(* and split into MyEncoder and MyDecoder; both use the first conv_block.  *)

\* [conv_block(in_f, out_f, kernel_size=3, padding=1) for in_f, out_f in pairs]
RECURSIVE conv_blocks_first(_, _, _)
conv_blocks_first(pairs, id, strict) ==
  IF Len(pairs) = 0 THEN Ok(<< >>, id)
  ELSE LET b == conv_block_first(pairs[1][1], pairs[1][2], 3, 1, id, strict)
       IN  IF b.exc # "none" THEN Raise(b.exc, b.next)
           ELSE LET rest == conv_blocks_first(Tail(pairs), b.next, strict)
                IN  IF rest.exc # "none" THEN Raise(rest.exc, rest.next)
                    ELSE Ok(<<b.val[1]>> \o rest.val[1], rest.next)

\* MyCNNClassifier.__init__(in_c, enc_sizes, dec_sizes, n_classes) of the
\* single class: encoder from self.enc_sizes, decoder from self.dec_sizes,
\* self.last from self.dec_sizes[-1]
MyCNNClassifier_single(in_c, enc_sizes, dec_sizes, n_classes, id, strict) ==
  LET self_enc_sizes == <<in_c>> \o enc_sizes
      self_dec_sizes == <<32 * 28 * 28>> \o dec_sizes
      encoder == conv_blocks_first(zip_shifted(self_enc_sizes), id, strict)
  IN  IF encoder.exc # "none" THEN Raise(encoder.exc, encoder.next)
      ELSE LET decoder == dec_blocks(zip_shifted(self_dec_sizes), encoder.next,
                                     strict)
           IN  IF decoder.exc # "none" THEN Raise(decoder.exc, decoder.next)
               ELSE LET last == Linear(self_dec_sizes[Len(self_dec_sizes)],
                                       n_classes, decoder.next, strict)
                    IN  IF last.exc # "none" THEN Raise(last.exc, last.next)
                        ELSE Ok([cls |-> "MyCNNClassifier",
                                 enc_sizes |-> self_enc_sizes,
                                 dec_sizes |-> self_dec_sizes,
                                 encoder |-> encoder.val[1],
                                 decoder |-> decoder.val[1],
                                 last |-> last.val[1]], last.next)

\* MyCNNClassifier.forward(x) of the single class: encoder, view, decoder;
\* self.last is not applied
MyCNNClassifier_single_forward(self, shape) ==
  LET e == blocks_forward(self.encoder, shape, << >>)
  IN  IF e.exc # "none" THEN e
      ELSE blocks_forward(self.decoder, flatten1(e.shape), Append(e.trace, 0))

\* MyEncoder.__init__(enc_sizes) of the split version
MyEncoder_split(enc_sizes, id, strict) ==
  LET blocks == conv_blocks_first(zip_shifted(enc_sizes), id, strict)
  IN  IF blocks.exc # "none" THEN Raise(blocks.exc, blocks.next)
      ELSE Ok([cls |-> "MyEncoder", conv_blokcs |-> blocks.val[1]], blocks.next)

\* MyCNNClassifier.__init__(in_c, enc_sizes, dec_sizes, n_classes) of the
\* split version: MyEncoder(self.enc_sizes), MyDecoder(dec_sizes, n_classes)
MyCNNClassifier_split(in_c, enc_sizes, dec_sizes, n_classes, id, strict) ==
  LET self_enc_sizes == <<in_c>> \o enc_sizes
      self_dec_sizes == <<32 * 28 * 28>> \o dec_sizes
      encoder == MyEncoder_split(self_enc_sizes, id, strict)
  IN  IF encoder.exc # "none" THEN Raise(encoder.exc, encoder.next)
      ELSE LET decoder == MyDecoder(dec_sizes, n_classes, encoder.next, strict)
           IN  IF decoder.exc # "none" THEN Raise(decoder.exc, decoder.next)
               ELSE Ok([cls |-> "MyCNNClassifier",
                        enc_sizes |-> self_enc_sizes,
                        dec_sizes |-> self_dec_sizes,
                        encoder |-> encoder.val[1],
                        decoder |-> decoder.val[1]], decoder.next)

---------------------------------------------------------------------------
(* MyModule: a ModuleList of linear layers and the list self.trace.  A     *)
(* tensor held in self.trace is [shape, by]: its shape and the ids of the  *)
(* layers that produced it from the input, in order.                       *)

\* [nn.Linear(in_f, out_f) for in_f, out_f in pairs]
RECURSIVE linears(_, _, _)
linears(pairs, id, strict) ==
  IF Len(pairs) = 0 THEN Ok(<< >>, id)
  ELSE LET l == Linear(pairs[1][1], pairs[1][2], id, strict)
       IN  IF l.exc # "none" THEN Raise(l.exc, l.next)
           ELSE LET rest == linears(Tail(pairs), l.next, strict)
                IN  IF rest.exc # "none" THEN Raise(rest.exc, rest.next)
                    ELSE Ok(<<l.val[1]>> \o rest.val[1], rest.next)

\* MyModule.__init__(sizes)
MyModule(sizes, id, strict) ==
  LET layers == linears(zip_shifted(sizes), id, strict)
  IN  IF layers.exc # "none" THEN Raise(layers.exc, layers.next)
      ELSE Ok([cls |-> "MyModule", layers |-> layers.val[1], trace |-> << >>],
              layers.next)

\* state of the loop of MyModule.forward: the exception raised if any, the
\* local x and the list self.trace
Looping(e, x, tr) == [exc |-> e, x |-> x, trace |-> tr]

\* a plausible slip: x appended before the layer is applied to it
MyModule_step_appends_input(layer, x, tr) ==
  LET r == layer_forward(layer, x.shape, x.by)
  IN  IF r.exc # "none" THEN Looping(r.exc, x, Append(tr, x))
      ELSE Looping("none", [shape |-> r.shape, by |-> r.trace], Append(tr, x))

\* a plausible slip: the output not stored
MyModule_step_stores_nothing(layer, x, tr) ==
  LET r == layer_forward(layer, x.shape, x.by)
  IN  IF r.exc # "none" THEN Looping(r.exc, x, tr)
      ELSE Looping("none", [shape |-> r.shape, by |-> r.trace], tr)

\* one iteration of the loop: x = layer(x); self.trace.append(x)
MyModule_step(layer, x, tr) ==
  LET r == layer_forward(layer, x.shape, x.by)
  IN  IF r.exc # "none" THEN Looping(r.exc, x, tr)
      ELSE LET y == [shape |-> r.shape, by |-> r.trace]
           IN  Looping("none", y, Append(tr, y))

\* for layer in self.layers: ...
RECURSIVE MyModule_loop(_, _, _)
MyModule_loop(layers, x, tr) ==
  IF Len(layers) = 0 THEN Looping("none", x, tr)
  ELSE LET r == MyModule_step(layers[1], x, tr)
       IN  IF r.exc # "none" THEN r
           ELSE MyModule_loop(Tail(layers), r.x, r.trace)

\* a plausible slip: self.trace emptied at the start of every call
MyModule_forward_resets(self, x) == MyModule_loop(self.layers, x, << >>)

\* MyModule.forward(x): the loop over self.layers, then return x
MyModule_forward(self, x) == MyModule_loop(self.layers, x, self.trace)

---------------------------------------------------------------------------
(* The session: one cell of the notebook is run on arguments drawn at the  *)
(* start; `model` is the object the cell binds, `exc` the exception of the *)
(* last statement, `out` and `trace` the result of the last forward call.  *)

\* the second object of a cell that builds two: nothing built, nothing called
NoOther ==
  [pc |-> "start", model |-> << >>, exc |-> "none", out |-> << >>,
   trace |-> << >>]

Init ==
  /\ \/ cell = "conv_block"      /\ args \in ConvBlockArgs
     \/ cell = "MyEncoder"       /\ args \in EncoderArgs
     \/ cell = "MyDecoder"       /\ args \in DecoderArgs
     \/ cell = "MyCNNClassifier" /\ args \in ClassifierArgs
     \/ cell = "MyModule"        /\ args \in ModuleArgs
     \/ cell = "conv_block_first" /\ args \in FirstConvBlockArgs
     \/ cell = "Sequential"      /\ args \in FixedClassifierArgs
     \/ cell = "Split"           /\ args \in SizedClassifierArgs
  /\ pc = "start"
  /\ model = << >>
  /\ exc = "none"
  /\ out = << >>
  /\ trace = << >>
  /\ nextId = 1
  /\ other = NoOther
  /\ calls = 0

Bind(r) ==
  /\ model' = r.val
  /\ exc' = r.exc
  /\ nextId' = r.next
  /\ pc' = IF r.exc = "none" THEN "built" ELSE "raised"
  /\ UNCHANGED <<cell, args, out, trace, other, calls>>

\* the same statement binding the cell's second object
BindOther(r) ==
  /\ other' = [other EXCEPT !.model = r.val, !.exc = r.exc,
                            !.pc = IF r.exc = "none" THEN "built" ELSE "raised"]
  /\ nextId' = r.next
  /\ UNCHANGED <<cell, args, pc, model, exc, out, trace, calls>>

Receive(r) ==
  /\ exc' = r.exc
  /\ out' = IF r.exc = "none" THEN <<r.shape>> ELSE << >>
  /\ trace' = r.trace
  /\ pc' = "called"
  /\ UNCHANGED <<cell, args, model, nextId, other, calls>>

\* the same call on the cell's second object
ReceiveOther(r) ==
  /\ other' = [other EXCEPT !.exc = r.exc,
                            !.out = IF r.exc = "none" THEN <<r.shape>> ELSE << >>,
                            !.trace = r.trace,
                            !.pc = "called"]
  /\ UNCHANGED <<cell, args, pc, model, exc, out, trace, nextId, calls>>

\* print(conv_block(in_f, out_f, activation, kernel_size=3, padding=1))
CallConvBlock ==
  /\ cell = "conv_block" /\ pc = "start"
  /\ Bind(conv_block(args.in_f, args.out_f, args.activation,
                     args.kernel_size, args.padding, nextId, args.strict))

\* conv_block(in_f, out_f, kernel_size=3, padding=1), first version
CallConvBlockFirst ==
  /\ cell = "conv_block_first" /\ pc = "start"
  /\ Bind(conv_block_first(args.in_f, args.out_f, args.kernel_size,
                           args.padding, nextId, args.strict))

NewMyEncoder ==
  /\ cell = "MyEncoder" /\ pc = "start"
  /\ Bind(MyEncoder(args.sizes, args.activation, nextId, args.strict))

NewMyDecoder ==
  /\ cell = "MyDecoder" /\ pc = "start"
  /\ Bind(MyDecoder(args.sizes, args.n_classes, nextId, args.strict))

\* model = MyCNNClassifier(in_c, enc_sizes, dec_sizes, n_classes[, activation])
NewMyCNNClassifier ==
  /\ cell = "MyCNNClassifier" /\ pc = "start"
  /\ Bind(MyCNNClassifier(args.in_c, args.enc_sizes, args.dec_sizes,
                          args.n_classes, args.activation, nextId, args.strict))

\* a second MyCNNClassifier(...) call with the same arguments
NewMyCNNClassifierAgain ==
  /\ cell = "MyCNNClassifier" /\ pc # "start" /\ other.pc = "start"
  /\ BindOther(MyCNNClassifier(args.in_c, args.enc_sizes, args.dec_sizes,
                               args.n_classes, args.activation, nextId,
                               args.strict))

\* model = MyModule(sizes)
NewMyModule ==
  /\ cell = "MyModule" /\ pc = "start"
  /\ Bind(MyModule(args.sizes, nextId, args.strict))

\* model(torch.rand(x)): the call mutates the list model.trace, also when
\* a layer raises after others have run
CallMyModule ==
  /\ cell = "MyModule" /\ pc \in {"built", "called"} /\ calls < MaxCalls
  /\ LET r == MyModule_forward(model[1], [shape |-> args.x, by |-> << >>])
     IN  /\ model' = <<[model[1] EXCEPT !.trace = r.trace]>>
         /\ exc' = r.exc
         /\ out' = IF r.exc = "none" THEN <<r.x>> ELSE << >>
  /\ pc' = "called"
  /\ calls' = calls + 1
  /\ UNCHANGED <<cell, args, trace, nextId, other>>

\* model = MyCNNClassifier(in_c, n_classes), plain Module version
NewMyCNNClassifierPlain ==
  /\ cell = "Sequential" /\ pc = "start"
  /\ Bind(MyCNNClassifier_plain(args.in_c, args.n_classes, nextId, args.strict))

\* model = MyCNNClassifier(in_c, n_classes) after the class is redefined
\* with nn.Sequential
NewMyCNNClassifierSequential ==
  /\ cell = "Sequential" /\ pc # "start" /\ other.pc = "start"
  /\ BindOther(MyCNNClassifier_sequential(args.in_c, args.n_classes, nextId,
                                          args.strict))

\* model(x) on the plain Module version
CallMyCNNClassifierPlain ==
  /\ cell = "Sequential" /\ pc \in {"built", "called"}
  /\ Receive(MyCNNClassifier_plain_forward(model[1], args.x))

\* model(x) on the nn.Sequential version
CallMyCNNClassifierSequential ==
  /\ cell = "Sequential" /\ other.pc \in {"built", "called"}
  /\ ReceiveOther(MyCNNClassifier_sequential_forward(other.model[1], args.x))

\* model = MyCNNClassifier(in_c, enc_sizes, dec_sizes, n_classes), single
\* class
NewMyCNNClassifierSingle ==
  /\ cell = "Split" /\ pc = "start"
  /\ Bind(MyCNNClassifier_single(args.in_c, args.enc_sizes, args.dec_sizes,
                                 args.n_classes, nextId, args.strict))

\* model = MyCNNClassifier(in_c, enc_sizes, dec_sizes, n_classes) after the
\* class is redefined over MyEncoder and MyDecoder
NewMyCNNClassifierSplit ==
  /\ cell = "Split" /\ pc # "start" /\ other.pc = "start"
  /\ BindOther(MyCNNClassifier_split(args.in_c, args.enc_sizes, args.dec_sizes,
                                     args.n_classes, nextId, args.strict))

\* model(x) on the single class
CallMyCNNClassifierSingle ==
  /\ cell = "Split" /\ pc \in {"built", "called"}
  /\ Receive(MyCNNClassifier_single_forward(model[1], args.x))

\* model(x) on the split version
CallMyCNNClassifierSplit ==
  /\ cell = "Split" /\ other.pc \in {"built", "called"}
  /\ ReceiveOther(MyCNNClassifier_forward(other.model[1], args.x))

\* model(x) on a MyEncoder
CallMyEncoder ==
  /\ cell = "MyEncoder" /\ pc \in {"built", "called"}
  /\ Receive(MyEncoder_call(model[1], args.x, << >>))

\* model(x) on a MyDecoder
CallMyDecoder ==
  /\ cell = "MyDecoder" /\ pc \in {"built", "called"}
  /\ Receive(MyDecoder_forward(model[1], <<args.x[1], args.sizes[1]>>, << >>))

\* model(x) on a MyCNNClassifier
CallMyCNNClassifier ==
  /\ cell = "MyCNNClassifier" /\ pc \in {"built", "called"}
  /\ Receive(MyCNNClassifier_forward(model[1], args.x))

Next ==
  \/ CallConvBlock
  \/ NewMyEncoder
  \/ NewMyDecoder
  \/ NewMyCNNClassifier
  \/ NewMyCNNClassifierAgain
  \/ CallMyEncoder
  \/ CallMyDecoder
  \/ CallMyCNNClassifier
  \/ NewMyModule
  \/ CallMyModule
  \/ CallConvBlockFirst
  \/ NewMyCNNClassifierPlain
  \/ NewMyCNNClassifierSequential
  \/ CallMyCNNClassifierPlain
  \/ CallMyCNNClassifierSequential
  \/ NewMyCNNClassifierSingle
  \/ NewMyCNNClassifierSplit
  \/ CallMyCNNClassifierSingle
  \/ CallMyCNNClassifierSplit

Spec == Init /\ [][Next]_vars

---------------------------------------------------------------------------
(* Properties *)

Built == pc \in {"built", "called"}
Ran == pc # "start"

AllPositive(sizes) == \A i \in 1..Len(sizes) : sizes[i] >= 1

\* the framework build in use takes every size of the list
FrameworkTakes(sizes) == ~args.strict \/ AllPositive(sizes)

\* the activation class the notebook registers under a name
RegisteredKind(name) == IF name = "lrelu" THEN "LeakyReLU" ELSE "ReLU"
IsRegistered(name) == name \in {"relu", "lrelu"}
GivenOrDefault(activation) == IF activation = Omitted THEN "relu" ELSE activation

\* blocks is one conv Block per consecutive pair of chain, in chain order
ConvBlocksFollow(blocks, chain) ==
  /\ Len(blocks) = Len(chain) - 1
  /\ \A i \in 1..(Len(chain) - 1) :
       /\ blocks[i][1].kind = "Conv2d"
       /\ blocks[i][1].in_f = chain[i]
       /\ blocks[i][1].out_f = chain[i + 1]
  /\ \A i \in 1..(Len(chain) - 2) : blocks[i][1].id < blocks[i + 1][1].id

\* C1: for a chain [s0..sn], n >= 1, MyEncoder holds exactly n conv Blocks
\* in chain order, Block i's convolution going from s_i to s_{i+1}; this
\* holds of an encoder built directly and of the classifier's encoder, and
\* the build succeeds whenever the activation is registered and the
\* framework takes the sizes.
C1_EncoderFollowsChain ==
  /\ (cell = "MyEncoder" /\ Ran /\ Len(args.sizes) >= 2) =>
       /\ (IsRegistered(GivenOrDefault(args.activation))
           /\ FrameworkTakes(args.sizes)) => Built
       /\ Built => ConvBlocksFollow(model[1].conv_blokcs, args.sizes)
  /\ (cell = "MyCNNClassifier" /\ Built /\ Len(args.enc_sizes) >= 1) =>
       ConvBlocksFollow(model[1].encoder.conv_blokcs,
                        <<args.in_c>> \o args.enc_sizes)

C1_Witness ==
  /\ cell = "MyEncoder" /\ pc = "built"
  /\ args.sizes = <<1, 32, 64>>
  /\ Len(model[1].conv_blokcs) = 2
  /\ model[1].conv_blokcs[2][1].in_f = 32

\* C2 as stated: "relu" gives a ReLU, "leaky_relu" gives a LeakyReLU, any
\* other name fails with the unknown-activation error and returns no Block.
C2_Original ==
  (cell = "conv_block" /\ Ran /\ args.activation # Omitted
   /\ args.in_f >= 1 /\ args.out_f >= 1) =>
     CASE args.activation = "relu" ->
            Built /\ model[1][3].kind = "ReLU"
       [] args.activation = "leaky_relu" ->
            Built /\ model[1][3].kind = "LeakyReLU"
       [] OTHER ->
            pc = "raised" /\ exc = "KeyError" /\ Len(model) = 0

\* C2 amended: "relu" gives a ReLU, "lrelu" gives a LeakyReLU, and any other
\* name, "leaky_relu" included, fails with KeyError and returns no Block
\* (whenever the framework takes the sizes).
C2_RegistryNames ==
  (cell = "conv_block" /\ Ran /\ args.activation # Omitted
   /\ FrameworkTakes(<<args.in_f, args.out_f>>)) =>
     CASE args.activation = "relu" ->
            Built /\ model[1][3].kind = "ReLU"
       [] args.activation = "lrelu" ->
            Built /\ model[1][3].kind = "LeakyReLU"
       [] OTHER ->
            pc = "raised" /\ exc = "KeyError" /\ Len(model) = 0

C2_Witness ==
  /\ cell = "conv_block" /\ pc = "built"
  /\ args.activation = "lrelu"
  /\ model[1][3].kind = "LeakyReLU"

\* every size of the classifier's configuration
ConfiguredSizes ==
  <<args.in_c>> \o args.enc_sizes \o args.dec_sizes \o <<args.n_classes>>

\* a classifier configuration with positive sizes, at least one encoder
\* and one decoder size, and an input with in_c channels
WellFormed ==
  /\ cell = "MyCNNClassifier"
  /\ AllPositive(ConfiguredSizes)
  /\ Len(args.enc_sizes) >= 1 /\ Len(args.dec_sizes) >= 1
  /\ args.x[2] = args.in_c

RECURSIVE LayerIds(_)
LayerIds(blocks) ==
  IF Len(blocks) = 0 THEN << >>
  ELSE [i \in 1..Len(blocks[1]) |-> blocks[1][i].id] \o LayerIds(Tail(blocks))

\* the stage order of the pipeline: encoder layers, flatten (0), decoder
\* layers, terminal projection
PipelineStages(m) ==
  LayerIds(m.encoder.conv_blokcs) \o <<0>>
    \o LayerIds(m.decoder.dec_blocks) \o <<m.decoder.last.id>>

\* C3 as stated: a forward call of the classifier runs encoder Blocks,
\* flatten, decoder Blocks and the terminal projection in that order and
\* returns the output of the terminal projection, of size n_classes.
C3_Original ==
  (WellFormed /\ pc = "called") =>
     /\ exc = "none"
     /\ trace = PipelineStages(model[1])
     /\ Len(out) = 1
     /\ out[1][Len(out[1])] = model[1].decoder.last.out_f

\* C4 as stated: a forward call of the classifier on a batch completes
\* without error and returns a tensor of shape (batch, n_classes); for
\* MyCNNClassifier(1, [32, 64], [1024, 512], 10) on (4, 1, 28, 28) that is
\* (4, 10).
C4_Original ==
  (WellFormed /\ pc = "called") =>
     /\ exc = "none"
     /\ out = << <<args.x[1], args.n_classes>> >>

\* C5 as stated: for dec_sizes of length m >= 1 the classifier's decoder
\* holds exactly m linear Blocks, the first going from the flattened size
\* the classifier prepends to dec_sizes[0].
C5_Original ==
  (WellFormed /\ Built) =>
     /\ Len(model[1].decoder.dec_blocks) = Len(args.dec_sizes)
     /\ model[1].decoder.dec_blocks[1][1].in_f = model[1].dec_sizes[1]
     /\ model[1].decoder.dec_blocks[1][1].out_f = args.dec_sizes[1]

\* input sizes / output sizes of consecutive blocks agree
Chained(blocks) ==
  \A i \in 1..(Len(blocks) - 1) : blocks[i + 1][1].in_f = blocks[i][1].out_f

\* the first input size of a decoder
DecoderIn(d) ==
  IF Len(d.dec_blocks) > 0 THEN d.dec_blocks[1][1].in_f ELSE d.last.in_f

\* C6 as stated: the size chain of a built model is consistent: each
\* Block's input size is the previous Block's output size, and the
\* decoder's first input size is the flattened size of what the encoder's
\* layers produce from the input.
C6_Original ==
  (WellFormed /\ Built
   /\ blocks_forward(model[1].encoder.conv_blokcs, args.x, << >>).exc = "none") =>
     /\ Chained(model[1].encoder.conv_blokcs)
     /\ Chained(model[1].decoder.dec_blocks)
     /\ DecoderIn(model[1].decoder) =
          flatten1(blocks_forward(model[1].encoder.conv_blokcs,
                                  args.x, << >>).shape)[2]

\* d is the decoder of chain [d0..dm] and n_classes: m Blocks of (linear
\* d_i -> d_{i+1}, sigmoid), then one linear d_m -> n_classes that is the
\* last module constructed and belongs to no Block
DecoderFollows(d, chain, n_classes) ==
  /\ Len(d.dec_blocks) = Len(chain) - 1
  /\ \A i \in 1..(Len(chain) - 1) :
       /\ Len(d.dec_blocks[i]) = 2
       /\ d.dec_blocks[i][1].kind = "Linear"
       /\ d.dec_blocks[i][1].in_f = chain[i]
       /\ d.dec_blocks[i][1].out_f = chain[i + 1]
       /\ d.dec_blocks[i][2].kind = "Sigmoid"
       /\ d.dec_blocks[i][2].id < d.last.id
  /\ d.last.kind = "Linear"
  /\ d.last.in_f = chain[Len(chain)]
  /\ d.last.out_f = n_classes

\* C7: MyDecoder on a chain [d0..dm] and n_classes holds m Blocks of
\* (linear d_i -> d_{i+1}, sigmoid) and an unactivated terminal linear
\* d_m -> n_classes; it is built whenever the chain is not empty and the
\* framework takes the sizes.
C7_DecoderFollowsChain ==
  /\ (cell = "MyDecoder" /\ Ran) =>
       /\ (Len(args.sizes) >= 1
           /\ FrameworkTakes(args.sizes \o <<args.n_classes>>)) => Built
       /\ Built => DecoderFollows(model[1], args.sizes, args.n_classes)
  /\ (cell = "MyCNNClassifier" /\ Built) =>
       DecoderFollows(model[1].decoder, args.dec_sizes, args.n_classes)

C7_Witness ==
  /\ cell = "MyDecoder" /\ pc = "built"
  /\ args.sizes = <<1024, 512>> /\ args.n_classes = 10
  /\ Len(model[1].dec_blocks) = 1
  /\ model[1].last.in_f = 512

\* C8 as stated: MyEncoder and MyDecoder fail on a chain of fewer than 2
\* elements and return no object.
C8_Original ==
  (cell \in {"MyEncoder", "MyDecoder"} /\ Ran /\ Len(args.sizes) < 2) =>
     pc = "raised" /\ Len(model) = 0

\* C8 amended: MyEncoder accepts a chain of fewer than 2 elements and
\* returns an encoder with no conv Block, whatever the sizes and the
\* activation name; MyDecoder accepts a chain [d0] and returns no linear
\* Block and the terminal projection d0 -> n_classes, failing there only if
\* the framework rejects a size; MyDecoder fails on the empty chain, with
\* IndexError.
C8_ShortChains ==
  /\ (cell = "MyEncoder" /\ Ran /\ Len(args.sizes) < 2) =>
       Built /\ Len(model[1].conv_blokcs) = 0
  /\ (cell = "MyDecoder" /\ Ran /\ Len(args.sizes) = 1) =>
       IF FrameworkTakes(args.sizes \o <<args.n_classes>>)
       THEN /\ Built
            /\ Len(model[1].dec_blocks) = 0
            /\ model[1].last.in_f = args.sizes[1]
            /\ model[1].last.out_f = args.n_classes
       ELSE pc = "raised" /\ exc = "FrameworkError"
  /\ (cell = "MyDecoder" /\ Ran /\ Len(args.sizes) = 0) =>
       pc = "raised" /\ exc = "IndexError" /\ Len(model) = 0

C8_Witness ==
  /\ cell = "MyEncoder" /\ pc = "built"
  /\ Len(args.sizes) = 1
  /\ Len(model[1].conv_blokcs) = 0

\* the sizes of the configuration that reach a layer constructor: in_c
\* reaches none when enc_sizes is empty
ConstructedSizes ==
  (IF Len(args.enc_sizes) = 0 THEN << >> ELSE <<args.in_c>> \o args.enc_sizes)
    \o args.dec_sizes \o <<args.n_classes>>

\* C9 as stated: a classifier configuration with a size below 1 is
\* rejected at construction time and no model is returned; stated here for
\* the framework builds that reject every size below 1 they are handed, so
\* that a violation is the notebook's own doing.
C9_Original ==
  (cell = "MyCNNClassifier" /\ Ran /\ args.strict
   /\ ~AllPositive(ConfiguredSizes)) =>
     pc = "raised" /\ Len(model) = 0

\* C9 amended: construction checks no size itself.  A configuration with a
\* size below 1 is rejected exactly when the construction fails for another
\* reason (unregistered activation, empty dec_sizes) or the size reaches a
\* layer constructor of a framework that rejects it; otherwise the model is
\* returned and carries the size.
C9_SizesUnchecked ==
  (cell = "MyCNNClassifier" /\ Ran /\ ~AllPositive(ConfiguredSizes)) =>
     /\ (args.strict /\ ~AllPositive(ConstructedSizes)) => pc = "raised"
     /\ (/\ ~args.strict \/ AllPositive(ConstructedSizes)
         /\ Len(args.dec_sizes) >= 1
         /\ IsRegistered(GivenOrDefault(args.activation))
            \/ Len(args.enc_sizes) = 0) =>
          /\ Built
          /\ model[1].enc_sizes = <<args.in_c>> \o args.enc_sizes
          /\ DecoderFollows(model[1].decoder, args.dec_sizes, args.n_classes)
          /\ Len(args.enc_sizes) >= 1 =>
               ConvBlocksFollow(model[1].encoder.conv_blokcs,
                                <<args.in_c>> \o args.enc_sizes)

C9_Witness ==
  /\ cell = "MyCNNClassifier" /\ pc = "built"
  /\ args.n_classes = 0 /\ args.in_c = 1
  /\ args.enc_sizes = <<32, 64>> /\ args.dec_sizes = <<1024, 512>>
  /\ model[1].decoder.last.out_f = 0

\* C10: the activation name given to MyCNNClassifier reaches every conv
\* Block of its encoder: each Block's third element is the activation
\* registered under that name, ReLU when no name is given; a name that is
\* not registered builds no model with a conv Block.
C10_ActivationReachesBlocks ==
  (cell = "MyCNNClassifier" /\ Built /\ Len(args.enc_sizes) >= 1) =>
     /\ IsRegistered(GivenOrDefault(args.activation))
     /\ \A i \in 1..Len(model[1].encoder.conv_blokcs) :
          /\ Len(model[1].encoder.conv_blokcs[i]) = 3
          /\ model[1].encoder.conv_blokcs[i][3].kind =
               RegisteredKind(GivenOrDefault(args.activation))

C10_Witness ==
  /\ cell = "MyCNNClassifier" /\ pc = "built"
  /\ args.activation = "lrelu"
  /\ Len(model[1].encoder.conv_blokcs) = 2
  /\ \A i \in 1..2 : model[1].encoder.conv_blokcs[i][3].kind = "LeakyReLU"

\* a layer without its identity
Described(layer) ==
  [kind |-> layer.kind, in_f |-> layer.in_f, out_f |-> layer.out_f,
   kernel_size |-> layer.kernel_size, padding |-> layer.padding]

DescribedBlocks(blocks) ==
  [i \in 1..Len(blocks) |->
     [j \in 1..Len(blocks[i]) |-> Described(blocks[i][j])]]

IdsOfBlocks(blocks) ==
  UNION {{blocks[i][j].id : j \in 1..Len(blocks[i])} : i \in 1..Len(blocks)}

\* the Block sequence and sizes of a MyCNNClassifier, identities left out
ClassifierStructure(m) ==
  [enc_sizes |-> m.enc_sizes, dec_sizes |-> m.dec_sizes,
   encoder |-> DescribedBlocks(m.encoder.conv_blokcs),
   decoder |-> DescribedBlocks(m.decoder.dec_blocks),
   last |-> Described(m.decoder.last)]

\* the instances a MyCNNClassifier holds
ClassifierIds(m) ==
  IdsOfBlocks(m.encoder.conv_blokcs) \cup IdsOfBlocks(m.decoder.dec_blocks)
    \cup {m.decoder.last.id}

\* C11: two MyCNNClassifier calls with identical arguments end the same way
\* (both build or both raise the same exception); when they build, the two
\* models have the same Block sequence and sizes and share no layer
\* instance, and the second call leaves the first model as it was.
C11_TwoBuildsIndependent ==
  (cell = "MyCNNClassifier" /\ other.pc # "start") =>
     /\ other.exc = (IF Built THEN "none" ELSE exc)
     /\ Built <=> other.pc = "built"
     /\ Built =>
          /\ ClassifierStructure(other.model[1]) = ClassifierStructure(model[1])
          /\ ClassifierIds(other.model[1]) \cap ClassifierIds(model[1]) = {}
          /\ other.model[1] # model[1]

C11_Witness ==
  /\ cell = "MyCNNClassifier" /\ pc = "built" /\ other.pc = "built"
  /\ args.enc_sizes = <<32, 64>> /\ args.dec_sizes = <<1024, 512>>
  /\ Cardinality(ClassifierIds(model[1])) = 9
  /\ Cardinality(ClassifierIds(other.model[1])) = 9

\* the number of layers of MyModule(args.sizes)
LayerCount == IF Len(args.sizes) = 0 THEN 0 ELSE Len(args.sizes) - 1

\* the input of the forward calls has the input size of the first layer
InputFits == LayerCount = 0 \/ args.x[2] = args.sizes[1]

\* C12: one forward call on a fresh MyModule([s0..sn]), n >= 1, with an
\* input of shape (b, s0) returns and leaves exactly n entries in trace,
\* the i-th of shape (b, s_{i+1}) and produced by layer i applied to the
\* entry before it (to the input for the first); the call returns the last
\* entry.
C12_TraceOfOneCall ==
  (cell = "MyModule" /\ calls = 1 /\ LayerCount >= 1 /\ InputFits) =>
     /\ exc = "none"
     /\ Len(model[1].layers) = LayerCount
     /\ Len(model[1].trace) = LayerCount
     /\ \A i \in 1..LayerCount :
          /\ model[1].trace[i].shape = <<args.x[1], args.sizes[i + 1]>>
          /\ model[1].trace[i].by =
               (IF i = 1 THEN << >> ELSE model[1].trace[i - 1].by)
                 \o <<model[1].layers[i].id>>
     /\ out = <<model[1].trace[LayerCount]>>

C12_Witness ==
  /\ cell = "MyModule" /\ calls = 1
  /\ args.sizes = <<1, 16, 32>> /\ args.x = <<4, 1>>
  /\ Len(model[1].trace) = 2
  /\ model[1].trace[1].shape = <<4, 16>>
  /\ model[1].trace[2].shape = <<4, 32>>

\* the chain of a MyModule has positive sizes only
ModuleWellFormed == cell = "MyModule" /\ AllPositive(args.sizes)

\* C13 as stated: a forward call changes no state the model owns, and a
\* second call with the same input returns what the first returned.
C13_Original ==
  [][((WellFormed \/ ModuleWellFormed) /\ pc \in {"built", "called"}) =>
       /\ model' = model
       /\ pc = "called" => (out' = out /\ exc' = exc)]_vars

\* C13 amended: a forward call on a MyCNNClassifier changes no state of the
\* model, and a forward call on a MyModule leaves its layers unchanged; in
\* both, a second call with the same input ends as the first did (same
\* value returned or same exception).  A forward call on a MyModule that
\* returns appends its n layer outputs to self.trace, so it does change the
\* state the model owns.
C13_ForwardChangesOnlyTrace ==
  [][/\ (cell = "MyCNNClassifier" /\ pc \in {"built", "called"}) =>
          /\ model' = model
          /\ pc = "called" => (out' = out /\ exc' = exc)
     /\ (cell = "MyModule" /\ pc \in {"built", "called"}) =>
          /\ model'[1].layers = model[1].layers
          /\ pc = "called" => (out' = out /\ exc' = exc)
          /\ (calls' = calls + 1 /\ exc' = "none") =>
               Len(model'[1].trace) = Len(model[1].trace) + LayerCount
          /\ (calls' = calls + 1 /\ exc' # "none") =>
               model'[1].trace = model[1].trace]_vars

C13_Witness ==
  /\ cell = "MyModule" /\ calls = 2 /\ exc = "none"
  /\ args.sizes = <<1, 16, 32>>
  /\ Len(model[1].trace) = 4

\* C14: MyModule.trace is never reset.  After k forward calls with an input
\* of the model's input size, on a MyModule built from n + 1 sizes,
\* len(trace) = k * n; every such call appends exactly n entries, removes
\* none and leaves the earlier entries where they were.
C14_TraceAccumulates ==
  /\ []((cell = "MyModule" /\ Built /\ InputFits) =>
          Len(model[1].trace) = calls * LayerCount)
  /\ [][(cell = "MyModule" /\ Built /\ calls' = calls + 1) =>
          /\ InputFits => Len(model'[1].trace) = Len(model[1].trace) + LayerCount
          /\ Len(model'[1].trace) >= Len(model[1].trace)
          /\ SubSeq(model'[1].trace, 1, Len(model[1].trace)) = model[1].trace]_vars

C14_Witness ==
  /\ cell = "MyModule" /\ calls = 3
  /\ args.sizes = <<1, 16, 32>> /\ args.x = <<4, 1>>
  /\ Len(model[1].trace) = 6

\* the registry entries a conv_block call built and did not select (the
\* registry of the call is built first, at the first free ids)
Unselected ==
  IF cell # "conv_block" THEN {}
  ELSE {activations(1)[n].id :
          n \in DOMAIN activations(1) \ {GivenOrDefault(args.activation)}}

\* C15: every Block returned by conv_block (both versions) has exactly three
\* elements in this order: a convolution in_f -> out_f with the kernel size
\* and padding passed, a normalization over out_f channels, and the selected
\* activation (always a ReLU in the first version); the registry entry that
\* was not selected is not an element of the Block.
C15_BlockOfThree ==
  (cell \in {"conv_block", "conv_block_first"} /\ Built) =>
     /\ Len(model[1]) = 3
     /\ Described(model[1][1]) =
          Described(Layer("Conv2d", args.in_f, args.out_f,
                          args.kernel_size, args.padding, 0))
     /\ model[1][2].kind = "BatchNorm2d"
     /\ model[1][2].in_f = model[1][1].out_f
     /\ model[1][2].out_f = args.out_f
     /\ model[1][3].kind =
          (IF cell = "conv_block_first" THEN "ReLU"
           ELSE RegisteredKind(GivenOrDefault(args.activation)))
     /\ \A j \in 1..Len(model[1]) : model[1][j].id \notin Unselected
     /\ Cardinality({model[1][j].id : j \in 1..Len(model[1])}) = 3

C15_Witness ==
  /\ cell = "conv_block" /\ pc = "built"
  /\ args.in_f = 1 /\ args.out_f = 32 /\ args.activation = "lrelu"
  /\ args.kernel_size = 1 /\ args.padding = 0
  /\ model[1][1].kernel_size = 1 /\ model[1][2].in_f = 32
  /\ model[1][3].kind = "LeakyReLU"
  /\ Unselected # {}

\* sizes and kind of a layer, as the printed structure shows them
Stage(kind, in_f, out_f) == [kind |-> kind, in_f |-> in_f, out_f |-> out_f]
StageOf(layer) == Stage(layer.kind, layer.in_f, layer.out_f)
StagesOf(layers) == [i \in 1..Len(layers) |-> StageOf(layers[i])]

\* the ordered layer sequence of each version, flatten included
PlainStages(m) ==
  StagesOf(MyCNNClassifier_plain_features(m)) \o <<Stage("flatten", 0, 0)>>
    \o StagesOf(MyCNNClassifier_plain_head(m))
SequentialStages(m) ==
  StagesOf(m.conv_block1 \o m.conv_block2) \o <<Stage("flatten", 0, 0)>>
    \o StagesOf(m.decoder)

\* every normalization of the sequence is sized to the convolution before it
NormsFollowConvs(stages) ==
  \A i \in 2..Len(stages) :
     stages[i].kind = "BatchNorm2d" =>
        /\ stages[i - 1].kind = "Conv2d"
        /\ stages[i].in_f = stages[i - 1].out_f

\* C16 as stated: for positive in_c and n_classes the plain Module version
\* and the nn.Sequential version build the same ordered layer sequence,
\* conv in_c->32, norm, relu, conv 32->64, norm, relu, flatten, linear
\* 25088->1024, sigmoid, linear 1024->n_classes, with each normalization
\* sized to the output of the convolution before it.
C16_Original ==
  (cell = "Sequential" /\ Built /\ other.pc \in {"built", "called"}
   /\ args.in_c >= 1 /\ args.n_classes >= 1) =>
     /\ PlainStages(model[1]) = SequentialStages(other.model[1])
     /\ NormsFollowConvs(PlainStages(model[1]))
     /\ NormsFollowConvs(SequentialStages(other.model[1]))
     /\ PlainStages(model[1]) =
          <<Stage("Conv2d", args.in_c, 32), Stage("BatchNorm2d", 32, 32),
            Stage("ReLU", 0, 0),
            Stage("Conv2d", 32, 64), Stage("BatchNorm2d", 64, 64),
            Stage("ReLU", 0, 0), Stage("flatten", 0, 0),
            Stage("Linear", 25088, 1024), Stage("Sigmoid", 0, 0),
            Stage("Linear", 1024, args.n_classes)>>

\* a configuration of the two parameterised versions with positive sizes
\* and at least one encoder and one decoder size
SplitWellFormed ==
  /\ cell = "Split"
  /\ AllPositive(ConfiguredSizes)
  /\ Len(args.enc_sizes) >= 1 /\ Len(args.dec_sizes) >= 1

\* C17 as stated: the split MyCNNClassifier has the same encoder Blocks,
\* the same decoder linear Blocks (as many as dec_sizes has entries, the
\* first starting at the flattened size) and the same terminal projection
\* as the single class, and a forward call of the two on the same input
\* ends the same way after the same number of stages.
C17_Original ==
  (SplitWellFormed /\ Built /\ other.pc \in {"built", "called"}) =>
     /\ DescribedBlocks(other.model[1].encoder.conv_blokcs) =
          DescribedBlocks(model[1].encoder)
     /\ DescribedBlocks(other.model[1].decoder.dec_blocks) =
          DescribedBlocks(model[1].decoder)
     /\ Len(other.model[1].decoder.dec_blocks) = Len(args.dec_sizes)
     /\ DecoderIn(other.model[1].decoder) = 32 * 28 * 28
     /\ Described(other.model[1].decoder.last) = Described(model[1].last)
     /\ (pc = "called" /\ other.pc = "called") =>
          /\ other.exc = exc
          /\ other.out = out
          /\ Len(other.trace) = Len(trace)

\* the Blocks of a classifier: the encoder's, the decoder's, and the
\* terminal projection on its own
BlocksOf(m) ==
  m.encoder.conv_blokcs \o m.decoder.dec_blocks \o << <<m.decoder.last>> >>

InstancesOf(block) == {block[j].id : j \in 1..Len(block)}

\* C18: within one built model no layer instance (convolution,
\* normalization, activation, linear) appears in two Blocks or twice in a
\* Block, and any two conv Blocks, built with the same activation name,
\* hold distinct activation instances.
C18_BlocksOwnTheirLayers ==
  (cell = "MyCNNClassifier" /\ Built) =>
     LET blocks == BlocksOf(model[1])
         convs  == model[1].encoder.conv_blokcs
     IN  /\ \A i, j \in 1..Len(blocks) :
              i # j => InstancesOf(blocks[i]) \cap InstancesOf(blocks[j]) = {}
         /\ \A i \in 1..Len(blocks) :
              Cardinality(InstancesOf(blocks[i])) = Len(blocks[i])
         /\ \A i, j \in 1..Len(convs) :
              i # j => /\ convs[i][3].kind = convs[j][3].kind
                       /\ convs[i][3].id # convs[j][3].id

C18_Witness ==
  /\ cell = "MyCNNClassifier" /\ pc = "built"
  /\ args.enc_sizes = <<32, 64>> /\ args.activation = "relu"
  /\ Len(model[1].encoder.conv_blokcs) = 2
  /\ model[1].encoder.conv_blokcs[1][3].kind = "ReLU"
  /\ model[1].encoder.conv_blokcs[2][3].kind = "ReLU"
  /\ model[1].encoder.conv_blokcs[1][3].id # model[1].encoder.conv_blokcs[2][3].id
  /\ Len(model[1].decoder.dec_blocks) >= 1

====
